---- MODULE Spec2Model ----
(***************************************************************************)
(* A model of bfv-py: the polynomial arithmetic of bfv/polynomial.py, the  *)
(* RLWE parameter set and the BFV operations of bfv/bfv.py, and the CRT    *)
(* subsystem exercised by tests/test_crt.py.                               *)
(*                                                                         *)
(* Polynomials are sequences of integers, highest degree first, as in the  *)
(* source.  Python lists are 0-based and TLA+ sequences 1-based: list      *)
(* index i is sequence index i + 1.                                        *)
(***************************************************************************)
EXTENDS Integers, Sequences, FiniteSets, TLC

VARIABLES
    pc,            \* position of the driver in the scenario being run
    coefficients,  \* Polynomial.coefficients of the polynomial under reduction
    ring,          \* the PolynomialRing it is reduced in
    prev,          \* history: coefficients before the latest reduce_in_ring
    args,          \* arguments of the function under test
    ret,           \* its result
    crt_moduli,    \* the CRTModuli object
    crt_integer,   \* the CRTInteger object
    crt_polys,     \* the polynomials of Rq and their per-factor polynomials
    rlwe,          \* the RLWE instance held by the BFV object
    secret_key,    \* s, from SecretKeyGen
    e,             \* the error polynomial given to PublicKeyGen
    sampled_a,     \* a, the polynomial PublicKeyGen sampled from Rq
    public_key,    \* (pk0, pk1), from PublicKeyGen
    cts,           \* the ciphertexts encrypted so far, each with what made it
    ct_sum,        \* the ciphertext EvalAdd returned, with the sums of what made it
    target,        \* the ciphertext handed to Decrypt, with its noise arguments
    v,             \* the noise polynomial Decrypt computed
    plain,         \* the polynomial Decrypt returned
    raised,        \* the exception that ended the scenario, "" if none
    heap,          \* the Polynomial objects made so far: object i has coefficients heap[i]
    refs           \* the objects the driver holds, by their position in heap

crtVars == <<crt_moduli, crt_integer, crt_polys>>
fnVars == <<coefficients, ring, prev, args, ret, crtVars>>
heapVars == <<heap, refs>>
valueVars == <<secret_key, e, sampled_a, public_key, cts, ct_sum, target, v, plain, raised>>
bfvVars == <<rlwe, valueVars, heapVars>>
vars == <<pc, fnVars, bfvVars>>

-----------------------------------------------------------------------------
(* Bounds of the model *)

\* longest polynomial handed to reduce_in_ring
MaxLen == 4
\* largest coefficient magnitude of the polynomials handed to reduce_in_ring
MaxCoeff == 2
\* largest ring modulus of the reduction scenario
MaxModulus == 4

-----------------------------------------------------------------------------
(* Python built-ins *)

Abs(x) == IF x < 0 THEN -x ELSE x

Max(a, b) == IF a >= b THEN a ELSE b

\* [0] * k ; the empty list when k <= 0
Zeros(k) == [i \in 1..k |-> 0]

\* list.reverse()
Reverse(seq) == [i \in 1..Len(seq) |-> seq[Len(seq) + 1 - i]]

\* all lists of length k over the set S
Lists(S, k) == [1..k -> S]

\* all lists of length 0..k over the set S
ListsUpTo(S, k) == UNION {Lists(S, j) : j \in 0..k}

-----------------------------------------------------------------------------
(* bfv/polynomial.py *)

\* get_centered_remainder with r < modulus / 2 for r <= modulus / 2
centered_remainder_strict(x, modulus) ==
    LET r == x % modulus
    IN  IF 2 * r < modulus THEN r ELSE r - modulus

\* r = x % modulus; r if r <= modulus / 2 else r - modulus.
\* modulus / 2 is a float; r <= modulus / 2 is 2 * r <= modulus wherever the
\* float is exact, which it is below 2^53 and so for every modulus the model
\* reaches.
get_centered_remainder(x, modulus) ==
    LET r == x % modulus
    IN  IF 2 * r <= modulus THEN r ELSE r - modulus

PolynomialRing(n, modulus) ==
    [n |-> n, modulus |-> modulus, denominator |-> <<1>> \o Zeros(n - 1) \o <<1>>]

\* the inner loop of poly_div with += for -=
poly_div_add(remainder, divisor, i, coeff) ==
    [k \in 1..Len(remainder) |->
        IF k - 1 >= i /\ k - 1 - i < Len(divisor)
        THEN remainder[k] + divisor[k - i] * coeff
        ELSE remainder[k]]

\* the inner loop of poly_div at quotient position i (0-based):
\* remainder[i + j] -= divisor[j] * coeff for every j
poly_div_sub(remainder, divisor, i, coeff) ==
    [k \in 1..Len(remainder) |->
        IF k - 1 >= i /\ k - 1 - i < Len(divisor)
        THEN remainder[k] - divisor[k - i] * coeff
        ELSE remainder[k]]

\* the main division loop from position i on; qlen = len(quotient)
RECURSIVE poly_div_loop(_, _, _, _)
poly_div_loop(remainder, divisor, i, qlen) ==
    IF i >= qlen THEN remainder
    ELSE poly_div_loop(
            poly_div_sub(remainder, divisor, i, remainder[i + 1] \div divisor[1]),
            divisor, i + 1, qlen)

\* while remainder and remainder[0] == 0: remainder.pop(0)
RECURSIVE strip_leading_zeros(_)
strip_leading_zeros(remainder) ==
    IF Len(remainder) > 0 /\ remainder[1] = 0
    THEN strip_leading_zeros(Tail(remainder))
    ELSE remainder

\* the remainder poly_div returns (its quotient is discarded by the caller)
poly_div(dividend, divisor) ==
    LET qlen == Max(Len(dividend) - Len(divisor) + 1, 0)
    IN  strip_leading_zeros(poly_div_loop(dividend, divisor, 0, qlen))

reduce_coefficients_by_cyclo(coeffs, cyclo) ==
    LET remainder == poly_div(coeffs, cyclo)
        n == Len(cyclo) - 1
    IN  Zeros(n - Len(remainder)) \o remainder

reduce_coefficients_by_modulus(coeffs, modulus) ==
    [i \in 1..Len(coeffs) |-> get_centered_remainder(coeffs[i], modulus)]

\* the coefficients of a polynomial after p.reduce_in_ring(r)
reduce_in_ring(coeffs, r) ==
    reduce_coefficients_by_modulus(
        reduce_coefficients_by_cyclo(coeffs, r.denominator), r.modulus)

poly_add(poly1, poly2) ==
    LET max_length == Max(Len(poly1), Len(poly2))
        p1 == Zeros(max_length - Len(poly1)) \o poly1
        p2 == Zeros(max_length - Len(poly2)) \o poly2
    IN  [i \in 1..max_length |-> p1[i] + p2[i]]

\* sum of f[i] * g[k - i] over the 0-based positions i = lo..hi that both have
RECURSIVE conv_sum(_, _, _, _, _)
conv_sum(f, g, k, lo, hi) ==
    IF lo > hi THEN 0
    ELSE (IF k - lo >= 0 /\ k - lo < Len(g) THEN f[lo + 1] * g[k - lo + 1] ELSE 0)
         + conv_sum(f, g, k, lo + 1, hi)

\* product[i + j] += poly1[i] * poly2[j] for every i, j
poly_mul_naive(poly1, poly2) ==
    [k \in 1..(Len(poly1) + Len(poly2) - 1) |->
        conv_sum(poly1, poly2, k - 1, 0, Len(poly1) - 1)]

\* n = 1; while n < product_len: n *= 2
RECURSIVE next_power_of_two(_, _)
next_power_of_two(n, product_len) ==
    IF n < product_len THEN next_power_of_two(2 * n, product_len) ELSE n

\* A float is modelled as a number of RoundOffDen-ths: the real part of each
\* coefficient that recursive_ifft returns for the pointwise product of two
\* recursive_fft results is the exact cyclic convolution of the two inputs
\* (length n, low degree first) plus the round-off of the transforms.
RoundOffDen == 4

\* the round-offs of magnitude below 0.5, for a transform of length n; the
\* transforms of length 1 and 2 use the roots of unity 1 and -1 only and
\* round nothing off
RoundOffs(n) ==
    IF n < 4 THEN {Zeros(n)}
    ELSE Lists({d \in (1 - RoundOffDen)..(RoundOffDen - 1) : 2 * Abs(d) < RoundOffDen}, n)

\* the transform that rounds nothing off
NoRoundOff == Zeros(16)

\* sum of f[i] * g[(k - i) mod n] over the 0-based positions i = lo..n-1
RECURSIVE cyclic_sum(_, _, _, _, _)
cyclic_sum(f, g, k, lo, n) ==
    IF lo >= n THEN 0
    ELSE f[lo + 1] * g[((k - lo) % n) + 1] + cyclic_sum(f, g, k, lo + 1, n)

\* [c.real for c in recursive_ifft([x * y for x, y in zip(recursive_fft(f), recursive_fft(g))])]
fft_product_real(f, g, n, roundoff) ==
    [k \in 1..n |-> RoundOffDen * cyclic_sum(f, g, k - 1, 0, n) + roundoff[k]]

\* int(x) of a float x: truncation towards zero
float_to_int(x) ==
    IF x >= 0 THEN x \div RoundOffDen ELSE -((-x) \div RoundOffDen)

\* poly_mul of two non-empty lists, the transforms rounding off by roundoff
poly_mul(poly1, poly2, roundoff) ==
    LET product_len == Len(poly1) + Len(poly2) - 1
        n == next_power_of_two(1, product_len)
        poly1_padded == Zeros(n - product_len) \o (Zeros(product_len - Len(poly1)) \o poly1)
        poly2_padded == Zeros(n - product_len) \o (Zeros(product_len - Len(poly2)) \o poly2)
        poly1_reversed == Reverse(poly1_padded)
        poly2_reversed == Reverse(poly2_padded)
        product_coeffs == fft_product_real(poly1_reversed, poly2_reversed, n, roundoff)
        product_padding == Len(product_coeffs) - product_len
        product_coeffs_no_pad == SubSeq(product_coeffs, 1, Len(product_coeffs) - product_padding)
        reversed == Reverse(product_coeffs_no_pad)
    IN  [i \in 1..Len(reversed) |-> float_to_int(reversed[i])]

\* Polynomial.__add__ and Polynomial.__mul__, on coefficient lists.  The BFV
\* scenarios take the product as exact: the transforms round nothing off.
Polynomial_add(self, other) == poly_add(self, other)
Polynomial_mul(self, other) == poly_mul(self, other, NoRoundOff)

\* sample_polynomial passes its assertion: (modulus - 1) / 2 has no decimal part
sample_polynomial_ok(r) == (r.modulus - 1) % 2 = 0

\* the polynomials sample_polynomial can return
sample_polynomial(r) ==
    Lists((-((r.modulus - 1) \div 2))..((r.modulus - 1) \div 2), r.n)

-----------------------------------------------------------------------------
(* bfv/bfv.py: RLWE *)

\* a & b of two non-negative integers
RECURSIVE bit_and(_, _)
bit_and(a, b) ==
    IF a = 0 \/ b = 0 THEN 0
    ELSE (a % 2) * (b % 2) + 2 * bit_and(a \div 2, b \div 2)

\* is_prime that tries the divisor 2 only
is_prime_even_only(n) ==
    IF n < 2 THEN FALSE ELSE \A i \in 2..(n - 1) : i # 2 \/ n % i # 0

is_prime(n) ==
    IF n < 2 THEN FALSE ELSE \A i \in 2..(n - 1) : n % i # 0

\* np.gcd of two positive integers
RECURSIVE gcd(_, _)
gcd(a, b) == IF b = 0 THEN a ELSE gcd(b, a % b)

\* RLWE(n, q, t, distribution): the exception raised, or the instance built
RLWE_init(n, q, t) ==
    LET fail(x) == [raised |-> x, n |-> 0,
                    Rq |-> PolynomialRing(1, 1), Rt |-> PolynomialRing(1, 1)]
    IN  IF t > q THEN fail("ValueError")
        ELSE IF ~(n > 0 /\ bit_and(n, n - 1) = 0) THEN fail("AssertionError")
        ELSE IF ~(q > 1) THEN fail("AssertionError")
        ELSE IF ~(t > 1) THEN fail("AssertionError")
        ELSE IF ~is_prime(t) THEN fail("AssertionError")
        ELSE IF ~(gcd(q, t) = 1) THEN fail("AssertionError")
        ELSE [raised |-> "", n |-> n,
              Rq |-> PolynomialRing(n, q), Rt |-> PolynomialRing(n, t)]

\* the polynomials SampleFromTernaryDistribution can return
SampleFromTernaryDistribution(r) == Lists({-1, 0, 1}, r.n)

-----------------------------------------------------------------------------
(* bfv/bfv.py: BFV *)

\* PublicKeyGen with pk1 = a
PublicKeyGen_unnegated(r, s, err, a) ==
    <<reduce_in_ring(Polynomial_add(Polynomial_mul(a, s), err), r.Rq), a>>

\* PublicKeyGen(s, e) when sample_polynomial returned a
PublicKeyGen(r, s, err, a) ==
    LET mul == Polynomial_mul(a, s)
        b == Polynomial_add(mul, err)
        pk0 == reduce_in_ring(b, r.Rq)
        pk1 == Polynomial_mul(a, <<-1>>)
    IN  <<pk0, pk1>>

Encrypt(r, pk, m, error, u, delta) ==
    LET e0 == error[1]
        e1 == error[2]
        delta_m == Polynomial_mul(<<delta>>, m)
        pk0_u == Polynomial_mul(pk[1], u)
        ct_0 == reduce_in_ring(Polynomial_add(Polynomial_add(delta_m, pk0_u), e0), r.Rq)
        pk1_u == Polynomial_mul(pk[2], u)
        ct_1 == reduce_in_ring(Polynomial_add(pk1_u, e1), r.Rq)
    IN  <<ct_0, ct_1>>

EncryptConst(r, pk, m, u, delta) ==
    LET delta_m == Polynomial_mul(<<delta>>, m)
        pk0_u == Polynomial_mul(pk[1], u)
        ct_0 == reduce_in_ring(Polynomial_add(delta_m, pk0_u), r.Rq)
        ct_1 == reduce_in_ring(Polynomial_mul(pk[2], u), r.Rq)
    IN  <<ct_0, ct_1>>

\* EvalAdd that returns the sums as they are
EvalAdd_unreduced(r, ciphertext1, ciphertext2) ==
    <<Polynomial_add(ciphertext1[1], ciphertext2[1]),
      Polynomial_add(ciphertext1[2], ciphertext2[2])>>

EvalAdd(r, ciphertext1, ciphertext2) ==
    LET ct0 == reduce_in_ring(Polynomial_add(ciphertext1[1], ciphertext2[1]), r.Rq)
        ct1 == reduce_in_ring(Polynomial_add(ciphertext1[2], ciphertext2[2]), r.Rq)
    IN  <<ct0, ct1>>

\* v = u * e + e0 + s * e1, as Decrypt computes it
Decrypt_noise(s, error, err, u) ==
    LET u_e == Polynomial_mul(u, err)
        s_e1 == Polynomial_mul(s, error[2])
    IN  Polynomial_add(Polynomial_add(u_e, error[1]), s_e1)

\* below_threshold that compares coeff, not abs(coeff)
below_threshold_signed(coeff, q, t) ==
    LET rt_Q == q % t
    IN  2 * t * coeff < q - t * rt_Q

\* abs(coeff) < q / (2 * t) - (q % t) / 2, both sides multiplied by 2 * t
below_threshold(coeff, q, t) ==
    LET rt_Q == q % t
    IN  2 * t * Abs(coeff) < q - t * rt_Q

\* the assertion inside Decrypt passes for every coefficient of the noise
Decrypt_noise_ok(r, noise) ==
    \A i \in 1..Len(noise) : below_threshold(noise[i], r.Rq.modulus, r.Rt.modulus)

\* round(x / q) of Python 3: to the nearest integer, a tie to the even one
round_div(x, q) ==
    LET lo == x \div q
        twice == 2 * (x % q)
    IN  IF twice < q THEN lo
        ELSE IF twice > q THEN lo + 1
        ELSE IF lo % 2 = 0 THEN lo ELSE lo + 1

\* what Decrypt returns once its assertion has passed
Decrypt(r, s, ciphertext) ==
    LET ct0 == ciphertext[1]
        ct1 == ciphertext[2]
        t == r.Rt.modulus
        q == r.Rq.modulus
        ct1_s == Polynomial_mul(ct1, s)
        numerator_1 == reduce_in_ring(Polynomial_add(ct0, ct1_s), r.Rq)
        numerator == Polynomial_mul(<<t>>, numerator_1)
        quotient == [i \in 1..Len(numerator) |-> round_div(numerator[i], q)]
    IN  reduce_in_ring(strip_leading_zeros(quotient), r.Rt)

-----------------------------------------------------------------------------
(* bfv/bfv.py on objects: every Polynomial is an object of the heap h, named *)
(* by its position; an operation returns the heap it leaves and the objects *)
(* it returns                                                                *)

\* the value of the one element of S
TheOne(S) == CHOOSE x \in S : TRUE

\* Polynomial(coefficients): a new object, the last of the heap
new_Polynomial(h, coeffs) == Append(h, coeffs)

\* self + other that adds into self
object_add_in_place(h, self, other) ==
    TheOne({Append([x EXCEPT ![self] = Polynomial_add(x[self], x[other])],
                   Polynomial_add(x[self], x[other])) : x \in {h}})

\* self + other returns a new object
object_add(h, self, other) ==
    TheOne({Append(x, Polynomial_add(x[self], x[other])) : x \in {h}})

\* self * other returns a new object
object_mul(h, self, other) ==
    TheOne({Append(x, Polynomial_mul(x[self], x[other])) : x \in {h}})

\* self.reduce_in_ring(ring) changes self
object_reduce_in_ring(h, self, r) ==
    TheOne({[x EXCEPT ![self] = reduce_in_ring(x[self], r)] : x \in {h}})

\* Polynomial(np.trim_zeros([round(coeff / q) for coeff in numerator.coefficients], "f"))
object_quotient(h, numerator, q) ==
    TheOne({Append(x, strip_leading_zeros(
                [i \in 1..Len(x[numerator]) |-> round_div(x[numerator][i], q)])) : x \in {h}})

\* In the operations below the k-th object an operation makes is object
\* Len(h) + k: every constructor, + and * makes one object.

\* PublicKeyGen(s, e) when sample_polynomial returned the coefficients a
PublicKeyGen_objects(h, r, s, err, a) ==
    LET a_ == Len(h) + 1
        mul == Len(h) + 2
        b == Len(h) + 3
        pk0 == b
        minus_one == Len(h) + 4
        pk1 == Len(h) + 5
        h1 == new_Polynomial(h, a)
        h2 == object_mul(h1, a_, s)
        h3 == object_add(h2, mul, err)
        h4 == object_reduce_in_ring(h3, pk0, r.Rq)
        h5 == new_Polynomial(h4, <<-1>>)
        h6 == object_mul(h5, a_, minus_one)
    IN  [heap |-> h6, ret |-> <<pk0, pk1>>]

Encrypt_objects(h, r, pk, m, error, u, delta) ==
    LET e0 == error[1]
        e1 == error[2]
        delta_ == Len(h) + 1
        delta_m == Len(h) + 2
        pk0_u == Len(h) + 3
        delta_m_pk0_u == Len(h) + 4
        ct_0 == Len(h) + 5
        pk1_u == Len(h) + 6
        ct_1 == Len(h) + 7
        h1 == new_Polynomial(h, <<delta>>)
        h2 == object_mul(h1, delta_, m)
        h3 == object_mul(h2, pk[1], u)
        h4 == object_add(h3, delta_m, pk0_u)
        h5 == object_add(h4, delta_m_pk0_u, e0)
        h6 == object_reduce_in_ring(h5, ct_0, r.Rq)
        h7 == object_mul(h6, pk[2], u)
        h8 == object_add(h7, pk1_u, e1)
        h9 == object_reduce_in_ring(h8, ct_1, r.Rq)
    IN  [heap |-> h9, ret |-> <<ct_0, ct_1>>]

EncryptConst_objects(h, r, pk, m, u, delta) ==
    LET delta_ == Len(h) + 1
        delta_m == Len(h) + 2
        pk0_u == Len(h) + 3
        ct_0 == Len(h) + 4
        ct_1 == Len(h) + 5
        h1 == new_Polynomial(h, <<delta>>)
        h2 == object_mul(h1, delta_, m)
        h3 == object_mul(h2, pk[1], u)
        h4 == object_add(h3, delta_m, pk0_u)
        h5 == object_reduce_in_ring(h4, ct_0, r.Rq)
        h6 == object_mul(h5, pk[2], u)
        h7 == object_reduce_in_ring(h6, ct_1, r.Rq)
    IN  [heap |-> h7, ret |-> <<ct_0, ct_1>>]

EvalAdd_objects(h, r, ciphertext1, ciphertext2) ==
    LET ct0 == Len(h) + 1
        ct1 == Len(h) + 2
        h1 == object_add(h, ciphertext1[1], ciphertext2[1])
        h2 == object_reduce_in_ring(h1, ct0, r.Rq)
        h3 == object_add(h2, ciphertext1[2], ciphertext2[2])
        h4 == object_reduce_in_ring(h3, ct1, r.Rq)
    IN  [heap |-> h4, ret |-> <<ct0, ct1>>]

\* the objects Decrypt has made when it asserts on the noise v
Decrypt_objects_noise(h, s, error, err, u) ==
    LET u_e == Len(h) + 1
        s_e1 == Len(h) + 2
        v1 == Len(h) + 3
        h1 == object_mul(h, u, err)
        h2 == object_mul(h1, s, error[2])
        h3 == object_add(h2, u_e, error[1])
    IN  object_add(h3, v1, s_e1)

\* Decrypt from its assertion on: h holds the objects made before it
Decrypt_objects_rest(h, r, s, ciphertext) ==
    LET ct0 == ciphertext[1]
        ct1 == ciphertext[2]
        ct1_s == Len(h) + 1
        numerator_1 == Len(h) + 2
        t_ == Len(h) + 3
        numerator == Len(h) + 4
        quotient_poly == Len(h) + 5
        h1 == object_mul(h, ct1, s)
        h2 == object_add(h1, ct0, ct1_s)
        h3 == object_reduce_in_ring(h2, numerator_1, r.Rq)
        h4 == new_Polynomial(h3, <<r.Rt.modulus>>)
        h5 == object_mul(h4, t_, numerator_1)
        h6 == object_quotient(h5, numerator, r.Rq.modulus)
        h7 == object_reduce_in_ring(h6, quotient_poly, r.Rt)
    IN  [heap |-> h7, ret |-> quotient_poly]

\* Decrypt(secret_key, ciphertext, error, e, u); ret is 0 when the assertion
\* on the noise fails
Decrypt_objects(h, r, s, ciphertext, error, err, u) ==
    TheOne({IF Decrypt_noise_ok(r, x[Len(x)])
            THEN Decrypt_objects_rest(x, r, s, ciphertext)
            ELSE [heap |-> x, ret |-> 0] : x \in {Decrypt_objects_noise(h, s, error, err, u)}})

-----------------------------------------------------------------------------
(* Scenario: a polynomial is reduced in a ring, twice *)

\* no CRT object exists outside the CRT scenario
NoModuli == [raised |-> "", qis |-> <<>>, q |-> [odd |-> 1, exp |-> 0]]
NoInteger == [xis |-> <<>>, by |-> "", x |-> 0]
NoPolys == [n |-> 0, a |-> <<>>, b |-> <<>>, a_rqis |-> <<>>, b_rqis |-> <<>>,
            c_rqis |-> <<>>, op |-> ""]

NoCRT ==
    /\ crt_moduli = NoModuli
    /\ crt_integer = NoInteger
    /\ crt_polys = NoPolys

\* no BFV object exists in the scenarios of the polynomial functions
NoRLWE == [raised |-> "", n |-> 0, Rq |-> PolynomialRing(1, 1), Rt |-> PolynomialRing(1, 1)]
NoCiphertext == [ct |-> <<>>, m |-> <<>>, error |-> <<>>, u |-> <<>>, by |-> ""]

NoRefs == [s |-> 0, e |-> 0, u |-> 0, m |-> 0, zero |-> 0, pk |-> <<>>, cts |-> <<>>,
           decrypts |-> 0, plain |-> 0]

NoBFV ==
    /\ rlwe = NoRLWE
    /\ secret_key = <<>>
    /\ e = <<>>
    /\ sampled_a = <<>>
    /\ public_key = <<>>
    /\ cts = <<>>
    /\ ct_sum = NoCiphertext
    /\ target = NoCiphertext
    /\ v = <<>>
    /\ plain = <<>>
    /\ raised = ""
    /\ heap = <<>>
    /\ refs = NoRefs

Rings == {PolynomialRing(n, m) : n \in {1, 2, 4}, m \in 2..MaxModulus}

InitReduce ==
    /\ pc = "fresh"
    /\ coefficients \in ListsUpTo(-MaxCoeff..MaxCoeff, MaxLen)
    /\ ring \in Rings
    /\ prev = coefficients
    /\ args = <<>>
    /\ ret = <<>>
    /\ NoCRT
    /\ NoBFV

\* p.reduce_in_ring(ring) on a polynomial that was not reduced yet; ret keeps
\* p.coefficients as they are between the two steps of reduce_in_ring
ReduceFresh ==
    /\ pc = "fresh"
    /\ prev' = coefficients
    /\ ret' = reduce_coefficients_by_cyclo(coefficients, ring.denominator)
    /\ coefficients' = reduce_in_ring(coefficients, ring)
    /\ pc' = "reduced"
    /\ UNCHANGED <<ring, args, crtVars, bfvVars>>

\* p.reduce_in_ring(ring) again, with the same ring
ReduceAgain ==
    /\ pc = "reduced"
    /\ prev' = coefficients
    /\ ret' = reduce_coefficients_by_cyclo(coefficients, ring.denominator)
    /\ coefficients' = reduce_in_ring(coefficients, ring)
    /\ pc' = "reduced twice"
    /\ UNCHANGED <<ring, args, crtVars, bfvVars>>

NextReduce == ReduceFresh \/ ReduceAgain

SpecReduce == InitReduce /\ [][NextReduce]_vars

-----------------------------------------------------------------------------
(* Scenario: a driver builds an RLWE instance, generates keys, encrypts,   *)
(* adds and decrypts                                                       *)

\* the (n, q, t) the driver tries
ParamSets ==
    {<<1, 7, 2>>, <<2, 7, 2>>, <<1, 8, 3>>, <<2, 8, 3>>,
     <<1, 2, 3>>, <<3, 7, 2>>, <<1, 7, 4>>, <<1, 7, 7>>}

\* the polynomials of S with at most one non-zero coefficient
Sparse(S) == {p \in S : Cardinality({i \in 1..Len(p) : p[i] # 0}) <= 1}

\* the error polynomials the driver draws
ErrorPolys(r) == Sparse(Lists({-1, 0, 1}, r.n))

\* the plaintexts: n coefficients in the centered range of t
Plaintexts(r) ==
    Sparse(Lists({get_centered_remainder(x, r.Rt.modulus) : x \in 0..(r.Rt.modulus - 1)}, r.n))

\* the outcomes of sample_polynomial the driver goes on with: the ends and the
\* middle of the range
SampledPolys(r) ==
    {a \in Sparse(sample_polynomial(r)) :
        \A i \in 1..Len(a) : a[i] = 0 \/ 2 * Abs(a[i]) = r.modulus - 1}

\* the number of ciphertexts the driver encrypts
MaxFresh(r) == IF r.n = 1 THEN 2 ELSE 1

InitBFV ==
    /\ pc = "start"
    /\ coefficients = <<>>
    /\ ring = PolynomialRing(1, 1)
    /\ prev = <<>>
    /\ args \in ParamSets
    /\ ret = <<>>
    /\ NoCRT
    /\ NoBFV

\* rlwe = RLWE(n, q, t, distribution); bfv = BFV(rlwe)
Construct ==
    /\ pc = "start"
    /\ rlwe' = RLWE_init(args[1], args[2], args[3])
    /\ raised' = IF rlwe'.raised = "" THEN "" ELSE "RLWE.__init__"
    /\ pc' = IF rlwe'.raised = "" THEN "rlwe" ELSE "failed"
    /\ UNCHANGED <<fnVars, heapVars>>
    /\ UNCHANGED <<secret_key, e, sampled_a, public_key, cts, ct_sum, target, v, plain>>

\* secret_key = bfv.SecretKeyGen()
DoSecretKeyGen ==
    /\ pc = "rlwe"
    /\ secret_key' \in Sparse(SampleFromTernaryDistribution(rlwe))
    /\ pc' = "sk"
    /\ UNCHANGED <<fnVars, heapVars, rlwe, e, sampled_a, public_key, cts, ct_sum, target, v, plain, raised>>

\* public_key = bfv.PublicKeyGen(secret_key, e)
DoPublicKeyGen ==
    /\ pc = "sk"
    /\ e' \in ErrorPolys(rlwe)
    /\ IF sample_polynomial_ok(rlwe.Rq)
       THEN /\ sampled_a' \in SampledPolys(rlwe.Rq)
            /\ public_key' = PublicKeyGen(rlwe, secret_key, e', sampled_a')
            /\ pc' = "pk"
            /\ raised' = ""
       ELSE /\ sampled_a' = <<>>
            /\ public_key' = <<>>
            /\ pc' = "failed"
            /\ raised' = "PublicKeyGen"
    /\ UNCHANGED <<fnVars, heapVars, rlwe, secret_key, cts, ct_sum, target, v, plain>>

\* ciphertext = bfv.Encrypt(public_key, m, (e0, e1), u, delta)
DoEncrypt ==
    /\ pc = "pk"
    /\ Len(cts) < MaxFresh(rlwe)
    /\ \E m \in Plaintexts(rlwe), e0 \in ErrorPolys(rlwe), e1 \in ErrorPolys(rlwe),
          u \in Sparse(SampleFromTernaryDistribution(rlwe)) :
        cts' = Append(cts,
            [ct |-> Encrypt(rlwe, public_key, m, <<e0, e1>>, u,
                            rlwe.Rq.modulus \div rlwe.Rt.modulus),
             m |-> m, error |-> <<e0, e1>>, u |-> u, by |-> "Encrypt"])
    /\ UNCHANGED <<pc, fnVars, heapVars, rlwe, secret_key, e, sampled_a, public_key, ct_sum, target, v, plain, raised>>

\* ciphertext = bfv.EncryptConst(public_key, m, u, delta)
DoEncryptConst ==
    /\ pc = "pk"
    /\ Len(cts) < MaxFresh(rlwe)
    /\ \E m \in Plaintexts(rlwe), u \in Sparse(SampleFromTernaryDistribution(rlwe)) :
        cts' = Append(cts,
            [ct |-> EncryptConst(rlwe, public_key, m, u,
                                 rlwe.Rq.modulus \div rlwe.Rt.modulus),
             m |-> m, error |-> <<Zeros(rlwe.n), Zeros(rlwe.n)>>, u |-> u,
             by |-> "EncryptConst"])
    /\ UNCHANGED <<pc, fnVars, heapVars, rlwe, secret_key, e, sampled_a, public_key, ct_sum, target, v, plain, raised>>

\* ct_sum = bfv.EvalAdd(first ciphertext, latest ciphertext)
DoEvalAdd ==
    /\ pc = "pk"
    /\ Len(cts) >= 1
    /\ LET c1 == cts[1]
           c2 == cts[Len(cts)]
       IN  ct_sum' = [ct |-> EvalAdd(rlwe, c1.ct, c2.ct),
                      m |-> Polynomial_add(c1.m, c2.m),
                      error |-> <<Polynomial_add(c1.error[1], c2.error[1]),
                                  Polynomial_add(c1.error[2], c2.error[2])>>,
                      u |-> Polynomial_add(c1.u, c2.u),
                      by |-> "EvalAdd"]
    /\ pc' = "sum"
    /\ UNCHANGED <<fnVars, heapVars, rlwe, secret_key, e, sampled_a, public_key, cts, target, v, plain, raised>>

\* bfv.Decrypt(secret_key, c.ct, c.error, e, c.u)
DecryptCall(c) ==
    /\ target' = c
    /\ v' = Decrypt_noise(secret_key, c.error, e, c.u)
    /\ IF Decrypt_noise_ok(rlwe, v')
       THEN /\ plain' = Decrypt(rlwe, secret_key, c.ct)
            /\ pc' = "decrypted"
            /\ raised' = ""
       ELSE /\ plain' = <<>>
            /\ pc' = "failed"
            /\ raised' = "Decrypt"
    /\ UNCHANGED <<fnVars, heapVars, rlwe, secret_key, e, sampled_a, public_key, cts, ct_sum>>

\* the driver decrypts the only ciphertext it encrypted
DoDecrypt ==
    /\ pc = "pk"
    /\ Len(cts) = 1
    /\ DecryptCall(cts[1])

\* the driver decrypts the ciphertext EvalAdd returned
DoDecryptSum ==
    /\ pc = "sum"
    /\ DecryptCall(ct_sum)

Next ==
    \/ Construct
    \/ DoSecretKeyGen
    \/ DoPublicKeyGen
    \/ DoEncrypt
    \/ DoEncryptConst
    \/ DoEvalAdd
    \/ DoDecrypt
    \/ DoDecryptSum

Spec == InitBFV /\ [][Next]_vars

-----------------------------------------------------------------------------
(* Scenario: RLWE instances are built from arbitrary parameters *)

\* largest ring degree tried
MaxN == 8
\* largest modulus tried
MaxQ == 12

InitRLWE ==
    /\ pc = "start"
    /\ coefficients = <<>>
    /\ ring = PolynomialRing(1, 1)
    /\ prev = <<>>
    /\ args \in (-1..MaxN) \X (-1..MaxQ) \X (-1..MaxQ)
    /\ ret = <<>>
    /\ NoCRT
    /\ NoBFV

SpecRLWE == InitRLWE /\ [][Construct]_vars

-----------------------------------------------------------------------------
(* Scenario: a driver holds polynomial objects and hands the same objects   *)
(* to several BFV operations                                                *)

\* the most ciphertexts the driver holds
MaxCiphertexts == 2
\* the most calls of Decrypt the driver makes
MaxDecrypts == 1

\* the polynomials of S the driver holds: sparse, no negative coefficient
Pool(S) == {p \in Sparse(S) : \A i \in 1..Len(p) : p[i] >= 0}

\* the driver holds s, e, a u and an m that are not zero, and a zero
\* polynomial, under accepted parameters
InitObjects ==
    /\ pc = "objects"
    /\ coefficients = <<>>
    /\ ring = PolynomialRing(1, 1)
    /\ prev = <<>>
    /\ args \in {<<1, 7, 2>>, <<2, 7, 2>>}
    /\ ret = <<>>
    /\ NoCRT
    /\ rlwe = RLWE_init(args[1], args[2], args[3])
    /\ secret_key = <<>>
    /\ e = <<>>
    /\ sampled_a = <<>>
    /\ public_key = <<>>
    /\ cts = <<>>
    /\ ct_sum = NoCiphertext
    /\ target = NoCiphertext
    /\ v = <<>>
    /\ plain = <<>>
    /\ raised = ""
    /\ \E s \in Pool(SampleFromTernaryDistribution(rlwe)), err \in Pool(ErrorPolys(rlwe)),
          u \in Pool(SampleFromTernaryDistribution(rlwe)), m \in Pool(Plaintexts(rlwe)) :
        /\ u # Zeros(rlwe.n)
        /\ m # Zeros(rlwe.n)
        /\ heap = <<s, err, u, m, Zeros(rlwe.n)>>
    /\ refs = [NoRefs EXCEPT !.s = 1, !.e = 2, !.u = 3, !.m = 4, !.zero = 5]

\* public_key = bfv.PublicKeyGen(s, e)
ObjPublicKeyGen ==
    /\ pc = "objects"
    /\ \E a \in SampledPolys(rlwe.Rq) :
        LET call == PublicKeyGen_objects(heap, rlwe, refs.s, refs.e, a)
        IN  /\ heap' = call.heap
            /\ refs' = [refs EXCEPT !.pk = call.ret]
    /\ pc' = "keys"
    /\ UNCHANGED <<fnVars, rlwe, valueVars>>

\* bfv.Encrypt(public_key, m, (e, e), u, delta): the error polynomial of
\* the key is both errors of the ciphertext
ObjEncrypt ==
    /\ pc = "keys"
    /\ Len(refs.cts) < MaxCiphertexts
    /\ LET call == Encrypt_objects(heap, rlwe, refs.pk, refs.m, <<refs.e, refs.e>>, refs.u,
                                   rlwe.Rq.modulus \div rlwe.Rt.modulus)
       IN  /\ heap' = call.heap
           /\ refs' = [refs EXCEPT !.cts = Append(@,
                    [ct |-> call.ret, error |-> <<refs.e, refs.e>>, u |-> refs.u])]
    /\ UNCHANGED <<pc, fnVars, rlwe, valueVars>>

\* bfv.EncryptConst(public_key, m, u, delta)
ObjEncryptConst ==
    /\ pc = "keys"
    /\ Len(refs.cts) < MaxCiphertexts
    /\ LET call == EncryptConst_objects(heap, rlwe, refs.pk, refs.m, refs.u,
                                        rlwe.Rq.modulus \div rlwe.Rt.modulus)
       IN  /\ heap' = call.heap
           /\ refs' = [refs EXCEPT !.cts = Append(@,
                    [ct |-> call.ret, error |-> <<refs.zero, refs.zero>>, u |-> refs.u])]
    /\ UNCHANGED <<pc, fnVars, rlwe, valueVars>>

\* bfv.EvalAdd(c1, c2) on two ciphertexts the driver holds, the same one
\* twice included; the driver adds their errors and ephemeral keys
ObjEvalAdd ==
    /\ pc = "keys"
    /\ Len(refs.cts) < MaxCiphertexts
    /\ \E i \in 1..Len(refs.cts), j \in 1..Len(refs.cts) :
        LET c1 == refs.cts[i]
            c2 == refs.cts[j]
            call == EvalAdd_objects(heap, rlwe, c1.ct, c2.ct)
            h1 == object_add(call.heap, c1.error[1], c2.error[1])
            h2 == object_add(h1, c1.error[2], c2.error[2])
            h3 == object_add(h2, c1.u, c2.u)
        IN  /\ heap' = h3
            /\ refs' = [refs EXCEPT !.cts = Append(@,
                    [ct |-> call.ret, error |-> <<Len(h1), Len(h2)>>, u |-> Len(h3)])]
    /\ UNCHANGED <<pc, fnVars, rlwe, valueVars>>

\* bfv.Decrypt(s, c, error, e, u) on a ciphertext the driver holds
ObjDecrypt ==
    /\ pc = "keys"
    /\ refs.decrypts < MaxDecrypts
    /\ \E i \in 1..Len(refs.cts) :
        LET c == refs.cts[i]
            call == Decrypt_objects(heap, rlwe, refs.s, c.ct, c.error, refs.e, c.u)
        IN  /\ heap' = call.heap
            /\ refs' = [refs EXCEPT !.decrypts = @ + 1, !.plain = call.ret]
    /\ UNCHANGED <<pc, fnVars, rlwe, valueVars>>

NextObjects ==
    \/ ObjPublicKeyGen
    \/ ObjEncrypt
    \/ ObjEncryptConst
    \/ ObjEvalAdd
    \/ ObjDecrypt

SpecObjects == InitObjects /\ [][NextObjects]_vars

-----------------------------------------------------------------------------
(* Properties of the BFV scenario *)

\* the ciphertext handed to Decrypt came from Encrypt calls only
FromEncrypt ==
    /\ target.by \in {"Encrypt", "EvalAdd"}
    /\ \A i \in 1..Len(cts) : cts[i].by = "Encrypt"

\* C1: whenever the noise check inside Decrypt passes, decrypting a
\* ciphertext that Encrypt made of m under the public key of s returns m.
C1_EndToEnd ==
    (pc = "decrypted" /\ target.by = "Encrypt") => plain = target.m

\* C2: decrypting EvalAdd of two Encrypt ciphertexts, with the sums of their
\* errors and ephemeral keys as noise arguments, returns m1 + m2 reduced into
\* Rt whenever the noise check passes; the only other outcome is the noise
\* failure of Decrypt.
C2_HomomorphicAdd ==
    (pc \in {"decrypted", "failed"} /\ target.by = "EvalAdd" /\ FromEncrypt) =>
        IF pc = "decrypted"
        THEN plain = reduce_in_ring(target.m, rlwe.Rt)
        ELSE raised = "Decrypt"

\* v = u * e + e0 + s * e1 by schoolbook multiplication
NoiseOf(c) ==
    poly_add(poly_add(poly_mul_naive(c.u, e), c.error[1]),
             poly_mul_naive(secret_key, c.error[2]))

\* |c| >= q / (2t) - (q mod t) / 2, as 2t * |c| >= q - t * (q mod t)
AtOrAboveThreshold(c) ==
    LET q == rlwe.Rq.modulus
        t == rlwe.Rt.modulus
    IN  2 * t * Abs(c) >= q - t * (q % t)

C5_EagerErrors ==
    (pc = "failed" /\ rlwe.raised = "") => raised = "Decrypt"

\* p has n coefficients, each in (-q/2, q/2]
ReducedInRq(p) ==
    /\ Len(p) = rlwe.n
    /\ \A i \in 1..Len(p) :
        -rlwe.Rq.modulus < 2 * p[i] /\ 2 * p[i] <= rlwe.Rq.modulus

C14_OperandsUnchanged ==
    [][\A i \in 1..Len(heap) : heap'[i] = heap[i]]_vars

\* a ciphertext was added to itself and then decrypted
C14_Witness ==
    /\ rlwe.n = 2
    /\ Len(refs.cts) = 2
    /\ refs.cts[2].u # refs.u
    /\ refs.decrypts = 1
    /\ refs.plain > refs.cts[2].u
    /\ heap[refs.plain] = heap[refs.m]
    /\ \E i \in 1..2 : heap[refs.e][i] # 0

-----------------------------------------------------------------------------
(* Properties of RLWE construction *)

IsPowerOfTwo(n) == \E k \in 0..MaxN : 2 ^ k = n

IsPrime(t) == t > 1 /\ Cardinality({d \in 1..t : t % d = 0}) = 2

Coprime(q, t) == ~ \E d \in 2..t : q % d = 0 /\ t % d = 0

\* C4: RLWE(n, q, t) fails whenever t > q, t is not prime, gcd(q, t) # 1, n is
\* not a positive power of two, q <= 1 or t <= 1, and is built otherwise; an
\* instance that was built has t < q, t prime, gcd(q, t) = 1,
\* Rq = PolynomialRing(n, q) and Rt = PolynomialRing(n, t).
C4_ParameterValidation ==
    pc # "start" =>
        LET n == args[1]
            q == args[2]
            t == args[3]
            valid == /\ t <= q
                     /\ q > 1
                     /\ t > 1
                     /\ IsPowerOfTwo(n)
                     /\ IsPrime(t)
                     /\ Coprime(q, t)
        IN  /\ valid <=> rlwe.raised = ""
            /\ rlwe.raised = "" =>
                /\ t < q
                /\ rlwe.n = n
                /\ rlwe.Rq = PolynomialRing(n, q)
                /\ rlwe.Rt = PolynomialRing(n, t)

\* an instance was built from a prime t below a composite q
C4_Witness ==
    /\ pc = "rlwe"
    /\ rlwe.raised = ""
    /\ rlwe.n > 1
    /\ ~IsPrime(rlwe.Rq.modulus)
    /\ rlwe.Rt.modulus > 2

-----------------------------------------------------------------------------
(* Properties of ring reduction *)

CoefficientOf(p, d) == IF d < Len(p) THEN p[Len(p) - d] ELSE 0

\* the sum over j >= from of (-1)^j times the coefficient of x^(k + j * n) in p
RECURSIVE AlternatingSum(_, _, _, _)
AlternatingSum(p, n, k, from) ==
    IF k + from * n >= Len(p) THEN 0
    ELSE (IF from % 2 = 0 THEN 1 ELSE -1) * CoefficientOf(p, k + from * n)
         + AlternatingSum(p, n, k, from + 1)

\* C13: reduce_coefficients_by_cyclo with the divisor x^n + 1 leaves exactly
\* n coefficients, the one of x^k being the alternating sum over j of
\* (-1)^j times the coefficient of x^(k + j * n) of p, with zeros on the left
\* where the remainder is of lower degree; reduce_in_ring centers these
\* coefficients modulo the modulus afterwards.
C13_CycloReduction ==
    pc \in {"reduced", "reduced twice"} =>
        /\ Len(ret) = ring.n
        /\ \A i \in 1..Len(ret) : ret[i] = AlternatingSum(prev, ring.n, ring.n - i, 0)
        /\ Len(coefficients) = Len(ret)
        /\ \A i \in 1..Len(ret) :
            /\ (coefficients[i] - ret[i]) % ring.modulus = 0
            /\ -ring.modulus < 2 * coefficients[i]
            /\ 2 * coefficients[i] <= ring.modulus

\* a polynomial of four coefficients was folded twice over x + 1, to a
\* remainder that the modulus reduction then changed
C13_Witness ==
    /\ pc = "reduced"
    /\ ring.n = 1
    /\ Len(prev) = 4
    /\ \A i \in 1..4 : prev[i] # 0
    /\ ret # coefficients

-----------------------------------------------------------------------------
(* Scenario: two polynomials are multiplied by poly_mul *)

\* longest operand of poly_mul
MaxMulLen == 2
\* largest coefficient magnitude of an operand of poly_mul
MaxMulCoeff == 3

MulOperands == ListsUpTo(-MaxMulCoeff..MaxMulCoeff, MaxMulLen) \ {<<>>}

InitMul ==
    /\ pc = "call"
    /\ coefficients = <<>>
    /\ ring = PolynomialRing(1, 1)
    /\ prev = <<>>
    /\ args \in MulOperands \X MulOperands
    /\ ret = <<>>
    /\ NoCRT
    /\ NoBFV

\* ret = poly_mul(poly1, poly2), the transforms rounding off by less than 0.5
CallPolyMul ==
    /\ pc = "call"
    /\ \E roundoff \in RoundOffs(next_power_of_two(1, Len(args[1]) + Len(args[2]) - 1)) :
        ret' = poly_mul(args[1], args[2], roundoff)
    /\ pc' = "returned"
    /\ UNCHANGED <<coefficients, ring, prev, args, crtVars, bfvVars>>

SpecMul == InitMul /\ [][CallPolyMul]_vars

\* C10: poly_mul(a, b) has len(a) + len(b) - 1 coefficients and equals the
\* schoolbook product poly_mul_naive(a, b) coefficient by coefficient,
\* whenever the round-off of the transforms is below 0.5.
C10_FFTMatchesNaive ==
    pc = "returned" =>
        /\ Len(ret) = Len(args[1]) + Len(args[2]) - 1
        /\ ret = poly_mul_naive(args[1], args[2])

-----------------------------------------------------------------------------
(* bfv/crt.py, as tests/test_crt.py uses it *)

\* A modulus is held as odd * 2^exp, so that moduli of 60 bits and more have
\* a value: the odd part and the exponent are small numbers.
Wide(odd, exp) == [odd |-> odd, exp |-> exp]

\* the value of a modulus that is small
Value(w) == w.odd * 2 ^ w.exp

\* int.bit_length() of a positive integer
RECURSIVE bit_length(_)
bit_length(x) == IF x = 0 THEN 0 ELSE 1 + bit_length(x \div 2)

wide_bit_length(w) == bit_length(w.odd) + w.exp

wide_gcd(a, b) ==
    Wide(gcd(a.odd, b.odd), IF a.exp <= b.exp THEN a.exp ELSE b.exp)

RECURSIVE wide_product(_)
wide_product(qis) ==
    IF qis = <<>> THEN Wide(1, 0)
    ELSE LET rest == wide_product(Tail(qis))
         IN  Wide(Head(qis).odd * rest.odd, Head(qis).exp + rest.exp)

\* the bit width a modulus may have
SafeBits == 60

\* CRTModuli that compares neighbouring moduli only
CRTModuli_init_neighbours(qis) ==
    IF \E i \in 1..Len(qis) : wide_bit_length(qis[i]) > SafeBits
    THEN [raised |-> "qi is too large", qis |-> <<>>, q |-> Wide(1, 0)]
    ELSE IF \E i \in 1..(Len(qis) - 1) : wide_gcd(qis[i], qis[i + 1]) # Wide(1, 0)
    THEN [raised |-> "qis are not pairwise coprime", qis |-> <<>>, q |-> Wide(1, 0)]
    ELSE [raised |-> "", qis |-> qis, q |-> wide_product(qis)]

\* CRTModuli(qis): the assertion that failed, or the object built
CRTModuli_init(qis) ==
    IF \E i \in 1..Len(qis) : wide_bit_length(qis[i]) > SafeBits
    THEN [raised |-> "qi is too large", qis |-> <<>>, q |-> Wide(1, 0)]
    ELSE IF \E i \in 1..Len(qis) : \E j \in (i + 1)..Len(qis) :
                wide_gcd(qis[i], qis[j]) # Wide(1, 0)
    THEN [raised |-> "qis are not pairwise coprime", qis |-> <<>>, q |-> Wide(1, 0)]
    ELSE [raised |-> "", qis |-> qis, q |-> wide_product(qis)]

\* the moduli of a CRTModuli object and their product, as integers
Qis(moduli) == [i \in 1..Len(moduli.qis) |-> Value(moduli.qis[i])]
Q(moduli) == Value(moduli.q)

\* CRTInteger.from_integer(moduli, x).xis
CRTInteger_from_integer(moduli, x) ==
    [i \in 1..Len(moduli.qis) |-> x % Qis(moduli)[i]]

\* CRTInteger.from_crt_components(moduli, xis).xis
CRTInteger_from_crt_components(moduli, xis) == xis

\* Ni = Mi^{-1} mod qi
mod_inverse(Mi, qi) == CHOOSE Ni \in 0..(qi - 1) : (Mi * Ni) % qi = 1 % qi

\* sum of xis[i] * Mi * Ni over the factors from i on
RECURSIVE crt_sum(_, _, _, _)
crt_sum(xis, qis, q, i) ==
    IF i > Len(qis) THEN 0
    ELSE LET Mi == q \div qis[i]
             Ni == mod_inverse(Mi, qis[i])
         IN  xis[i] * Mi * Ni + crt_sum(xis, qis, q, i + 1)

\* recover that leaves out the inverses Ni
RECURSIVE crt_sum_no_inverse(_, _, _, _)
crt_sum_no_inverse(xis, qis, q, i) ==
    IF i > Len(qis) THEN 0
    ELSE xis[i] * (q \div qis[i]) + crt_sum_no_inverse(xis, qis, q, i + 1)

CRTInteger_recover_no_inverse(moduli, xis) ==
    crt_sum_no_inverse(xis, Qis(moduli), Q(moduli), 1) % Q(moduli)

\* CRTInteger.recover()
CRTInteger_recover(moduli, xis) ==
    crt_sum(xis, Qis(moduli), Q(moduli), 1) % Q(moduli)

\* CRTPolynomial.from_rq_polynomial_to_rqi_polynomials(poly, n, moduli)
from_rq_polynomial_to_rqi_polynomials(poly, n, moduli) ==
    [i \in 1..Len(moduli.qis) |-> reduce_in_ring(poly, PolynomialRing(n, Qis(moduli)[i]))]

\* from_rqi_polynomials_to_rq_polynomial that leaves the coefficients in [0, q)
recovered_polynomial_uncentered(polys, n, moduli) ==
    [k \in 1..n |->
        CRTInteger_recover(moduli, [i \in 1..Len(moduli.qis) |-> polys[i][k]])]

\* CRTPolynomial.from_rqi_polynomials_to_rq_polynomial(polys, n, moduli)
from_rqi_polynomials_to_rq_polynomial(polys, n, moduli) ==
    [k \in 1..n |->
        get_centered_remainder(
            CRTInteger_recover(moduli, [i \in 1..Len(moduli.qis) |-> polys[i][k]]),
            Q(moduli))]

-----------------------------------------------------------------------------
(* Scenario: the CRT tests: moduli are built, an integer and polynomials go *)
(* to CRT representation and back                                          *)

\* the moduli the driver tries: small ones, and ones of 60 bits and more
SmallModuli == {Wide(1, 1), Wide(3, 0), Wide(1, 2), Wide(5, 0), Wide(7, 0), Wide(1, 3), Wide(9, 0)}
LargeModuli == {Wide(1, 59), Wide(3, 58), Wide(1, 60), Wide(1, 61)}

\* longest list of moduli
MaxModuli == 3
\* largest q an integer goes to CRT representation for
MaxProduct == 504
\* largest n * q of a ring whose polynomials go to CRT representation
MaxRingSize == 15

InitCRT ==
    /\ pc = "start"
    /\ coefficients = <<>>
    /\ ring = PolynomialRing(1, 1)
    /\ prev = <<>>
    /\ args \in UNION {Lists(SmallModuli \cup LargeModuli, k) : k \in 1..MaxModuli}
    /\ ret = <<>>
    /\ NoCRT
    /\ NoBFV

\* the moduli are all small: the integer and polynomial tests run on them
SmallObject(moduli) ==
    \A i \in 1..Len(moduli.qis) : moduli.qis[i] \in SmallModuli

\* crt_moduli = CRTModuli(qis)
CRTConstruct ==
    /\ pc = "start"
    /\ crt_moduli' = CRTModuli_init(args)
    /\ pc' = IF crt_moduli'.raised = "" THEN "moduli" ELSE "failed"
    /\ UNCHANGED <<coefficients, ring, prev, args, ret, crt_integer, crt_polys, bfvVars>>

\* crt_integer = CRTInteger.from_integer(crt_moduli, x)
FromInteger ==
    /\ pc = "moduli"
    /\ SmallObject(crt_moduli)
    /\ Q(crt_moduli) <= MaxProduct
    /\ \E x \in 0..(Q(crt_moduli) - 1) :
        crt_integer' = [xis |-> CRTInteger_from_integer(crt_moduli, x),
                        by |-> "from_integer", x |-> x]
    /\ pc' = "integer"
    /\ UNCHANGED <<coefficients, ring, prev, args, ret, crt_moduli, crt_polys, bfvVars>>

\* crt_integer = CRTInteger.from_crt_components(crt_moduli, xis)
FromComponents ==
    /\ pc = "moduli"
    /\ SmallObject(crt_moduli)
    /\ Q(crt_moduli) <= MaxProduct
    /\ \E xis \in Lists(-1..9, Len(crt_moduli.qis)) :
        /\ \A i \in 1..Len(xis) : xis[i] <= Qis(crt_moduli)[i]
        /\ crt_integer' = [xis |-> CRTInteger_from_crt_components(crt_moduli, xis),
                           by |-> "from_crt_components", x |-> 0]
    /\ pc' = "integer"
    /\ UNCHANGED <<coefficients, ring, prev, args, ret, crt_moduli, crt_polys, bfvVars>>

\* crt_integer.recover()
Recover ==
    /\ pc = "integer"
    /\ ret' = CRTInteger_recover(crt_moduli, crt_integer.xis)
    /\ pc' = "recovered"
    /\ UNCHANGED <<coefficients, ring, prev, args, crtVars, bfvVars>>

\* the polynomials of n coefficients in the centered range of q
CenteredPolys(n, q) == Lists({x \in (-q)..q : -q < 2 * x /\ 2 * x <= q}, n)

\* a and b are taken from Rq and go to CRT representation
ToCRT ==
    /\ pc = "moduli"
    /\ SmallObject(crt_moduli)
    /\ \E n \in {1, 2} :
        /\ n * Q(crt_moduli) <= MaxRingSize
        /\ \E a \in CenteredPolys(n, Q(crt_moduli)), b \in CenteredPolys(n, Q(crt_moduli)) :
            crt_polys' = [n |-> n, a |-> a, b |-> b,
                          a_rqis |-> from_rq_polynomial_to_rqi_polynomials(a, n, crt_moduli),
                          b_rqis |-> from_rq_polynomial_to_rqi_polynomials(b, n, crt_moduli),
                          c_rqis |-> <<>>, op |-> ""]
    /\ pc' = "rqis"
    /\ UNCHANGED <<coefficients, ring, prev, args, ret, crt_moduli, crt_integer, bfvVars>>

\* the per-factor polynomials of a are recovered as they are
KeepInCRT ==
    /\ pc = "rqis"
    /\ crt_polys' = [crt_polys EXCEPT !.c_rqis = crt_polys.a_rqis, !.op = "keep"]
    /\ pc' = "c_rqis"
    /\ UNCHANGED <<coefficients, ring, prev, args, ret, crt_moduli, crt_integer, bfvVars>>

\* c_rqi = a_rqis[i] + b_rqis[i], reduced in the ring of its factor, or, as
\* the addition test does, by the modulus of Rq
AddInCRT ==
    /\ pc = "rqis"
    /\ \E by_rq \in BOOLEAN :
        crt_polys' = [crt_polys EXCEPT
            !.c_rqis = [i \in 1..Len(crt_moduli.qis) |->
                LET c_rqi == Polynomial_add(crt_polys.a_rqis[i], crt_polys.b_rqis[i])
                IN  IF by_rq
                    THEN reduce_coefficients_by_modulus(c_rqi, Q(crt_moduli))
                    ELSE reduce_in_ring(c_rqi, PolynomialRing(crt_polys.n, Qis(crt_moduli)[i]))],
            !.op = "add"]
    /\ pc' = "c_rqis"
    /\ UNCHANGED <<coefficients, ring, prev, args, ret, crt_moduli, crt_integer, bfvVars>>

\* c_rqi = a_rqis[i] * b_rqis[i], reduced in the ring of its factor
MulInCRT ==
    /\ pc = "rqis"
    /\ crt_polys' = [crt_polys EXCEPT
            !.c_rqis = [i \in 1..Len(crt_moduli.qis) |->
                reduce_in_ring(Polynomial_mul(crt_polys.a_rqis[i], crt_polys.b_rqis[i]),
                               PolynomialRing(crt_polys.n, Qis(crt_moduli)[i]))],
            !.op = "mul"]
    /\ pc' = "c_rqis"
    /\ UNCHANGED <<coefficients, ring, prev, args, ret, crt_moduli, crt_integer, bfvVars>>

\* c_recovered = CRTPolynomial.from_rqi_polynomials_to_rq_polynomial(c_rqis, n, crt_moduli)
RecoverPolynomial ==
    /\ pc = "c_rqis"
    /\ ret' = from_rqi_polynomials_to_rq_polynomial(crt_polys.c_rqis, crt_polys.n, crt_moduli)
    /\ pc' = "c_recovered"
    /\ UNCHANGED <<coefficients, ring, prev, args, crtVars, bfvVars>>

NextCRT ==
    \/ CRTConstruct
    \/ FromInteger
    \/ FromComponents
    \/ Recover
    \/ ToCRT
    \/ KeepInCRT
    \/ AddInCRT
    \/ MulInCRT
    \/ RecoverPolynomial

SpecCRT == InitCRT /\ [][NextCRT]_vars

-----------------------------------------------------------------------------
(* Properties of the CRT subsystem *)

\* C7: from_integer(moduli, x) has the residues xis[i] = x mod qi and
\* recover() returns x, for every x in [0, q); for any residues given to
\* from_crt_components, recover() returns the only value of [0, q) that is
\* congruent to xis[i] modulo every qi; moduli [5, 7, 8] and residues
\* [3, 1, 6] give 78.
C7_CRTIntegerRoundTrip ==
    LET qis == Qis(crt_moduli)
        q == Q(crt_moduli)
        xis == crt_integer.xis
        Congruent(y) == \A i \in 1..Len(qis) : (y - xis[i]) % qis[i] = 0
    IN  /\ (pc \in {"integer", "recovered"} /\ crt_integer.by = "from_integer") =>
            \A i \in 1..Len(qis) :
                /\ xis[i] \in 0..(qis[i] - 1)
                /\ (crt_integer.x - xis[i]) % qis[i] = 0
        /\ pc = "recovered" =>
            /\ ret \in 0..(q - 1)
            /\ \A y \in 0..(q - 1) : Congruent(y) <=> y = ret
            /\ crt_integer.by = "from_integer" => ret = crt_integer.x
            /\ (qis = <<5, 7, 8>> /\ xis = <<3, 1, 6>>) => ret = 78

\* the residues [3, 1, 6] of the moduli [5, 7, 8] were recovered
C7_Witness ==
    /\ pc = "recovered"
    /\ crt_integer.by = "from_crt_components"
    /\ Qis(crt_moduli) = <<5, 7, 8>>
    /\ crt_integer.xis = <<3, 1, 6>>
    /\ ret = 78

PrimeDivides(p, w) == IF p = 2 THEN w.exp >= 1 ELSE w.odd % p = 0

\* the modulus w is 2^60 or more: it has more than 60 bits
Beyond60Bits(w) ==
    IF w.exp >= 60 THEN TRUE
    ELSE IF 60 - w.exp > 4 THEN FALSE
    ELSE w.odd >= 2 ^ (60 - w.exp)

\* the product of the moduli from position i on
RECURSIVE ProductFrom(_, _)
ProductFrom(qis, i) ==
    IF i > Len(qis) THEN Wide(1, 0)
    ELSE LET w == ProductFrom(qis, i + 1)
         IN  Wide(w.odd * qis[i].odd, w.exp + qis[i].exp)

\* C9: CRTModuli(qis) fails if two of the qis share a factor or if a qi
\* exceeds the bit width bound (2^61 is rejected, moduli of 60 bits are not)
\* and is built otherwise, with the qis unchanged, in the same order, and q
\* their product.
C9_ModuliValidation ==
    pc \in {"moduli", "failed"} =>
        LET shared == \E i \in 1..Len(args) : \E j \in 1..Len(args) :
                        /\ i # j
                        /\ \E p \in {2, 3, 5, 7} :
                            PrimeDivides(p, args[i]) /\ PrimeDivides(p, args[j])
            large == \E i \in 1..Len(args) : Beyond60Bits(args[i])
        IN  /\ (shared \/ large) <=> crt_moduli.raised # ""
            /\ (\E i \in 1..Len(args) : args[i] = Wide(1, 61)) => pc = "failed"
            /\ crt_moduli.raised = "" =>
                /\ crt_moduli.qis = args
                /\ crt_moduli.q = ProductFrom(args, 1)

\* three moduli were accepted, one of them of 60 bits
C9_Witness ==
    /\ pc = "moduli"
    /\ Len(crt_moduli.qis) = 3
    /\ \E i \in 1..3 : crt_moduli.qis[i] = Wide(3, 58)
    /\ crt_moduli.q.odd > 9

====
